---- MODULE Spec2Model ----
(***************************************************************************)
(* Model of the Google Programmable Search MCP server (src/server.py):     *)
(* the `search` tool, its retrying upstream call `_cse_get` and the result *)
(* normalisation `_normalize` with the optional domain allowlist.          *)
(*                                                                         *)
(* Text is modelled as a sequence of tokens (characters or character       *)
(* groups), so that strip, lower, urlparse and endswith are computed and   *)
(* not assumed.  Optional values read with dict.get are sequences of       *)
(* length 0 (None) or 1.  Delays are in milliseconds.                      *)
(***************************************************************************)
EXTENDS Integers, Sequences, FiniteSets, TLC

VARIABLES
    ALLOW_DOMAINS,  \* server.ALLOW_DOMAINS: set of lower-cased domain texts
    pc,             \* where the call is: idle, request, sleep, returned, raised
    args,           \* the arguments search was called with
    endpoint,       \* local `endpoint` of search
    params,         \* local `params` of search
    attempt,        \* loop variable of _cse_get
    upstream,       \* the requests handed to _http.get, in order
    history,        \* the outcome of each of those requests, in order
    resp,           \* the response or exception being handled (None when none)
    delay,          \* local `delay` of _cse_get: <<>> (None) or <<ms>>
    sleeps,         \* number of asyncio.sleep calls made by the call
    data,           \* the decoded upstream body (local `data` of search)
    result,         \* the value search returned
    error,          \* the exception search raised
    LOG_QUERIES,    \* server.LOG_QUERIES
    LOG_QUERY_TEXT, \* server.LOG_QUERY_TEXT
    LOG_LEVEL,      \* server.LOG_LEVEL (upper-cased)
    logs,           \* the records _logger has emitted, in order
    launcher,       \* the entry point that started the process
    phase,          \* loaded, serving, shutdown, exited
    app,            \* the ASGI app get_app built (none for stdio)
    _http,          \* server._http, the shared httpx.AsyncClient
    peer,           \* a second search call running concurrently
    dcr             \* the client-registration Lambda: environment, event, answer

\* the module constants of the logging configuration
logcfg == <<LOG_QUERIES, LOG_QUERY_TEXT, LOG_LEVEL>>

\* the process and its transport
life == <<launcher, phase, app, _http>>

vars == <<ALLOW_DOMAINS, pc, args, endpoint, params, attempt, upstream,
          history, resp, delay, sleeps, data, result, error,
          LOG_QUERIES, LOG_QUERY_TEXT, LOG_LEVEL, logs,
          launcher, phase, app, _http, peer, dcr>>

----------------------------------------------------------------------------
\* Bounds of the model

MaxItems == 2

MaxNormItems == 3

----------------------------------------------------------------------------
\* Python values

None == "<None>"

Truthy(s) == s # None /\ s # ""

Min(a, b) == IF a < b THEN a ELSE b

Max(a, b) == IF a > b THEN a ELSE b

\* dict.get(k): None when the key is missing
Get(d, k) == IF k \in DOMAIN d THEN <<d[k]>> ELSE <<>>

Last(s) == s[Len(s)]

----------------------------------------------------------------------------
\* Process-wide configuration

GOOGLE_CSE_ENDPOINT == "https://www.googleapis.com/customsearch/v1"

GOOGLE_CSE_SITERESTRICT_ENDPOINT == "https://www.googleapis.com/customsearch/v1/siterestrict"

GOOGLE_API_KEY == "test_api_key"

GOOGLE_CX == "test_cx_id"

ExampleCom == <<"example", ".", "com">>

OtherOrg == <<"other", ".", "org">>

AllowLists == {{}, {ExampleCom}, {ExampleCom, OtherOrg}}

----------------------------------------------------------------------------
\* Text helpers

Whitespace == {" ", "\t", "\n"}

RECURSIVE LStrip(_)
LStrip(s) ==
    IF s # <<>> /\ Head(s) \in Whitespace THEN LStrip(Tail(s)) ELSE s

RECURSIVE RStrip(_)
RStrip(s) ==
    IF s # <<>> /\ Last(s) \in Whitespace
    THEN RStrip(SubSeq(s, 1, Len(s) - 1))
    ELSE s

StripLeft(s) == LStrip(s)

\* str.strip()
Strip(s) == RStrip(LStrip(s))

LowerTok(t) ==
    CASE t = "EXAMPLE" -> "example"
      [] t = "COM" -> "com"
      [] t = "Bearer" -> "bearer"
      [] t = "BEARER" -> "bearer"
      [] t = "Basic" -> "basic"
      [] t = "Authorization" -> "authorization"
      [] t = "TRUE" -> "true"
      [] t = "False" -> "false"
      [] OTHER -> t

\* str.lower()
Lower(s) == [i \in 1..Len(s) |-> LowerTok(s[i])]

\* str.endswith(suffix)
EndsWith(s, suffix) ==
    /\ Len(suffix) <= Len(s)
    /\ SubSeq(s, Len(s) - Len(suffix) + 1, Len(s)) = suffix

RECURSIVE UntilDelim(_)
UntilDelim(s) ==
    IF s = <<>> \/ Head(s) \in {"/", "?", "#"}
    THEN <<>>
    ELSE <<Head(s)>> \o UntilDelim(Tail(s))

\* urllib.parse.urlparse(url).netloc, url an optional text: the text between
\* "scheme://" and the next "/", "?" or "#"; empty for None and for a text
\* with no "//" after the scheme
Netloc(url) ==
    IF url # <<>> /\ Len(url[1]) >= 3 /\ url[1][2] = ":" /\ url[1][3] = "//"
    THEN UntilDelim(SubSeq(url[1], 4, Len(url[1])))
    ELSE <<>>

\* host = (urlparse(url).netloc or "").lower()
Host(url) == Lower(Netloc(url))

----------------------------------------------------------------------------
\* _normalize

Allowed(url) ==
    \E dom \in ALLOW_DOMAINS : EndsWith(Host(url), dom)

NormalizedItemDefaulted(it, i) ==
    [title |-> IF "title" \in DOMAIN it THEN <<it["title"]>> ELSE <<"">>,
     url |-> Get(it, "link"),
     snippet |-> IF "snippet" \in DOMAIN it THEN <<it["snippet"]>> ELSE <<"">>,
     rank |-> i]

NormalizedItem(it, i) ==
    [title |-> Get(it, "title"),
     url |-> Get(it, "link"),
     snippet |-> Get(it, "snippet"),
     rank |-> i]

RECURSIVE NormalizeFrom(_, _)
NormalizeFrom(items, i) ==
    IF i > Len(items)
    THEN <<>>
    ELSE LET it == items[i]
             url == Get(it, "link")
         IN  IF ALLOW_DOMAINS # {} /\ ~Allowed(url)
             THEN NormalizeFrom(items, i + 1)
             ELSE <<NormalizedItem(it, i)>> \o NormalizeFrom(items, i + 1)

NormalizeUnfiltered(items) ==
    [i \in 1..Len(items) |-> NormalizedItem(items[i], i)]

_normalize(items) == NormalizeFrom(items, 1)

\* _hash_q: a deterministic function of the query text
_hash_q(q) == <<"sha256">> \o q

----------------------------------------------------------------------------
\* search: input hygiene and request assembly

OptionalFields ==
    {"siteSearch", "siteSearchFilter", "safe", "gl", "hl", "lr",
     "dateRestrict", "exactTerms", "orTerms", "excludeTerms"}

LeanFields == "items(title,link,snippet),queries(nextPage(startIndex)),searchInformation(searchTime,totalResults),kind"

NumUnclamped(n) == Max(1, n)

\* num = max(1, min(10, int(num)))
ClampNum(n) == Max(1, Min(10, n))

StartUnclamped(n) == n

\* start = max(1, int(start))
ClampStart(n) == Max(1, n)

SafeNeverRejected(safe) == FALSE

\* if safe and safe not in {"off", "active"}: raise ValueError
SafeRejected(safe) == Truthy(safe) /\ safe \notin {"off", "active"}

EndpointStandard(a) == GOOGLE_CSE_ENDPOINT

\* endpoint selection
Endpoint(a) ==
    IF a.useSiteRestrict
    THEN GOOGLE_CSE_SITERESTRICT_ENDPOINT
    ELSE GOOGLE_CSE_ENDPOINT

\* cxOverride or GOOGLE_CX
Cx(a) == IF Truthy(a.cxOverride) THEN a.cxOverride ELSE GOOGLE_CX

BuildParamsNotNone(a) ==
    LET keys == {"key", "cx", "q", "num", "start"}
                \cup {k \in OptionalFields : a[k] # None}
                \cup (IF a.lean_fields THEN {"fields"} ELSE {})
    IN  [k \in keys |->
            CASE k = "key" -> GOOGLE_API_KEY
              [] k = "cx" -> Cx(a)
              [] k = "q" -> Strip(a.q)
              [] k = "num" -> ClampNum(a.num)
              [] k = "start" -> ClampStart(a.start)
              [] k = "fields" -> LeanFields
              [] OTHER -> a[k]]

\* the params dict: base params, the optional params that are truthy, and
\* the fields projection
BuildParams(a) ==
    LET keys == {"key", "cx", "q", "num", "start"}
                \cup {k \in OptionalFields : Truthy(a[k])}
                \cup (IF a.lean_fields THEN {"fields"} ELSE {})
    IN  [k \in keys |->
            CASE k = "key" -> GOOGLE_API_KEY
              [] k = "cx" -> Cx(a)
              [] k = "q" -> Strip(a.q)
              [] k = "num" -> ClampNum(a.num)
              [] k = "start" -> ClampStart(a.start)
              [] k = "fields" -> LeanFields
              [] OTHER -> a[k]]

EchoOfParams(a, p) == p

\* echoed_query: the locals q, num, start and the optional arguments as
\* given; neither key nor cx
EchoedQuery(a, p) ==
    [q |-> p["q"],
     num |-> p["num"],
     start |-> p["start"],
     safe |-> a.safe,
     gl |-> a.gl,
     hl |-> a.hl,
     lr |-> a.lr,
     siteSearch |-> a.siteSearch,
     siteSearchFilter |-> a.siteSearchFilter,
     dateRestrict |-> a.dateRestrict,
     exactTerms |-> a.exactTerms,
     orTerms |-> a.orTerms,
     excludeTerms |-> a.excludeTerms]

NextPageOrFirst(d) ==
    IF "queries" \in DOMAIN d /\ "nextPage" \in DOMAIN d["queries"]
    THEN <<d["queries"]["nextPage"][1]["startIndex"]>>
    ELSE <<1>>

\* next_page = (data.get("queries", {}).get("nextPage") or [{}])[0].get("startIndex")
NextPage(d) ==
    LET queries == IF "queries" \in DOMAIN d THEN d["queries"] ELSE <<>>
        np == IF "nextPage" \in DOMAIN queries THEN queries["nextPage"] ELSE <<>>
        first == IF np = <<>> THEN <<>> ELSE np[1]
    IN  Get(first, "startIndex")

\* the dict search returns
BuildResult(a, p, d, dt) ==
    [provider |-> "google-cse",
     query |-> EchoedQuery(a, p),
     searchInfo |-> Get(d, "searchInformation"),
     nextPage |-> NextPage(d),
     latency_ms |-> dt,
     results |-> _normalize(IF "items" \in DOMAIN d THEN d["items"] ELSE <<>>),
     raw |-> [kind |-> Get(d, "kind")],
     trace |-> [q_hash |-> _hash_q(p["q"])]]

----------------------------------------------------------------------------
\* Logging

DEBUG == 10

INFO == 20

WARNING == 30

ERROR == 40

\* getattr(logging, LOG_LEVEL, logging.INFO)
LevelNo(name) ==
    CASE name = "DEBUG" -> DEBUG
      [] name = "INFO" -> INFO
      [] name = "WARNING" -> WARNING
      [] name = "ERROR" -> ERROR
      [] OTHER -> INFO

\* Logger.isEnabledFor after _logger.setLevel
IsEnabledFor(levelno) == levelno >= LevelNo(LOG_LEVEL)

\* _logger.debug / _logger.info: the record is emitted when its level is
\* enabled
Log(lg, rec) == IF IsEnabledFor(rec.levelno) THEN Append(lg, rec) ELSE lg

\* "%.2fs" % delay: the delay in hundredths of a second
Centis(ms) == (ms + 5) \div 10

\* "cse_get attempt=%d status=%s"
AttemptRecord(att, status) ==
    [levelno |-> DEBUG, name |-> "cse_get attempt",
     ints |-> [attempt |-> att + 1, status |-> status],
     texts |-> <<>>]

\* "cse_get retrying attempt=%d http_status=%s delay=%.2fs"
RetryRecord(status, att, d) ==
    [levelno |-> DEBUG, name |-> "cse_get retrying",
     ints |-> [attempt |-> att + 1, http_status |-> status, delay |-> Centis(d)],
     texts |-> <<>>]

\* "cse_get network error attempt=%d delay=%.2fs error=%s"
NetworkRecord(att, d, exc) ==
    [levelno |-> DEBUG, name |-> "cse_get network error",
     ints |-> [attempt |-> att + 1, delay |-> Centis(d)],
     texts |-> [error |-> <<exc>>]]

QueryLineWithText(a, p, ep, dt) ==
    [levelno |-> INFO, name |-> "search",
     ints |-> [dt_ms |-> dt, num |-> p["num"], start |-> p["start"]],
     strs |-> [safe |-> IF Truthy(a.safe) THEN a.safe ELSE "-",
               endpoint |-> IF ep = GOOGLE_CSE_SITERESTRICT_ENDPOINT
                            THEN "siterestrict" ELSE "cse"],
     texts |-> [q_hash |-> _hash_q(p["q"]), q |-> p["q"]]]

\* "search q_hash=... dt_ms=... num=... start=... safe=... endpoint=..."
\* and q="..." when LOG_QUERY_TEXT
QueryLine(a, p, ep, dt) ==
    [levelno |-> INFO, name |-> "search",
     ints |-> [dt_ms |-> dt, num |-> p["num"], start |-> p["start"]],
     strs |-> [safe |-> IF Truthy(a.safe) THEN a.safe ELSE "-",
               endpoint |-> IF ep = GOOGLE_CSE_SITERESTRICT_ENDPOINT
                            THEN "siterestrict" ELSE "cse"],
     texts |-> IF LOG_QUERY_TEXT
               THEN [q_hash |-> _hash_q(p["q"]), q |-> p["q"]]
               ELSE [q_hash |-> _hash_q(p["q"])]]

----------------------------------------------------------------------------
\* _cse_get: the retry policy

MaxAttempts == 3

ExcerptLen == 500

BackoffBaseMs == 200

JitterSpanMs == 400

RetryableStatuses == {429, 500, 502, 503, 504}

RetryableThrice(status, att) == status \in RetryableStatuses /\ att < MaxAttempts

RetryableOnce(status, att) == status \in RetryableStatuses /\ att < 1

RetryableWith403(status, att) ==
    status \in (RetryableStatuses \cup {403}) /\ att < MaxAttempts - 1

RetryableAnyAttempt(status, att) == status \in RetryableStatuses

\* retryable = status in (429, 500, 502, 503, 504) and attempt < 2
Retryable(status, att) ==
    status \in RetryableStatuses /\ att < MaxAttempts - 1

\* (0.2 + random.random() * 0.4) * (2**attempt), jitter = random * 0.4 in ms
BackoffFlat(jitter, att) == BackoffBaseMs + jitter

Backoff(jitter, att) == (BackoffBaseMs + jitter) * (2 ^ att)

\* float(ra) in ms for the header texts of the model; <<>> for ValueError
ParseFloatMs(ra) ==
    CASE ra = "0" -> <<0>>
      [] ra = "2" -> <<2000>>
      [] ra = "-1" -> <<-1000>>
      [] OTHER -> <<>>

\* the delay before a retry after an HTTP status error
StatusDelay(ra, jitter, att) ==
    LET parsed == IF Truthy(ra) THEN ParseFloatMs(ra) ELSE <<>>
    IN  IF parsed # <<>> THEN Max(0, parsed[1]) ELSE Backoff(jitter, att)

FullText(textLen) == textLen

\* e.response.text[:500], as the length of the excerpt
Excerpt(textLen) == Min(textLen, ExcerptLen)

----------------------------------------------------------------------------
\* The inputs of the model: calls, upstream items, upstream answers

SeqsUpTo(S, n) == UNION {[1..k -> S] : k \in 0..n}

Url(host, path) == <<"https", ":", "//">> \o host \o <<"/", path>>

Item(title, link) == [title |-> title, link |-> link, snippet |-> "snippet"]

ItemA == Item("A", Url(<<"example", ".", "com">>, "a"))

ItemB == Item("B", Url(<<"evil", ".", "com">>, "b"))

ItemC == Item("C", Url(<<"sub", ".", "example", ".", "com">>, "c"))

ItemD == Item("D", Url(<<"not", "example", ".", "com">>, "d"))

\* no link
ItemE == [title |-> "E"]

\* upper-case host
ItemF == Item("F", Url(<<"EXAMPLE", ".", "COM">>, "f"))

\* host with a port
ItemG == Item("G", Url(<<"example", ".", "com", ":", "8080">>, "g"))

\* a link with no scheme
ItemH == Item("H", <<"example", ".", "com", "/", "h">>)

\* an item with no field at all
ItemI == <<>>

SearchItems == {ItemA, ItemB}

NormItems == {ItemA, ItemB, ItemC, ItemD, ItemE, ItemF, ItemG, ItemH, ItemI}

EmptyDict == <<>>

QueriesValues ==
    {<<>>, <<EmptyDict>>, <<[nextPage |-> <<[startIndex |-> 4]>>]>>}

\* a decoded JSON object: items and queries are optional
JsonObject(its, qs) ==
    [k \in {"kind", "searchInformation"}
           \cup (IF its # <<>> THEN {"items"} ELSE {})
           \cup (IF qs # <<>> THEN {"queries"} ELSE {}) |->
        CASE k = "kind" -> "customsearch#search"
          [] k = "searchInformation" -> [totalResults |-> "2"]
          [] k = "items" -> its[1]
          [] OTHER -> qs[1]]

\* the body of a 2xx response: a JSON object, a JSON value that is no
\* object, or text that is not JSON
Bodies ==
    {[kind |-> "object", json |-> JsonObject(its, qs)] :
        its \in {<<>>} \cup {<<l>> : l \in SeqsUpTo(SearchItems, MaxItems)},
        qs \in QueriesValues}
    \cup {[kind |-> "array", json |-> <<>>], [kind |-> "not_json", json |-> <<>>]}

ErrorStatuses == {400, 401, 403, 501} \cup RetryableStatuses

RetryAfters == {None, "", "0", "2", "-1", "abc"}

Jitters == {0, JitterSpanMs - 1}

TextLens == {0, ExcerptLen, ExcerptLen + 1}

NetErrors == {"ConnectError", "ReadTimeout"}

Queries ==
    {<<>>, <<" ">>, <<"a">>, <<" ", "a", " ", "b", "\n">>, <<"\t", "a">>}

Nums == {-1, 0, 1, 5, 10, 11, 99}

Starts == {-5, 0, 1, 2, 101}

Safes == {None, "", "off", "active", "strict", "high"}

Default ==
    [q |-> <<"a", " ", "b">>, num |-> 5, start |-> 1,
     siteSearch |-> None, siteSearchFilter |-> None, safe |-> None,
     gl |-> None, hl |-> None, lr |-> None, useSiteRestrict |-> FALSE,
     dateRestrict |-> None, exactTerms |-> None, orTerms |-> None,
     excludeTerms |-> None, cxOverride |-> None, lean_fields |-> TRUE]

\* the calls of the model: each argument varied from the defaults, and an
\* unsupported safe together with an out-of-range num
Requests ==
    {[Default EXCEPT !.q = x] : x \in Queries}
    \cup {[Default EXCEPT !.num = n] : n \in Nums}
    \cup {[Default EXCEPT !.start = n] : n \in Starts}
    \cup {[Default EXCEPT !.safe = s] : s \in Safes}
    \cup {[Default EXCEPT !.safe = "strict", !.num = n] : n \in {0, 99}}
    \cup {[Default EXCEPT !.cxOverride = c, !.useSiteRestrict = u] :
            c \in {None, "", "other_cx"}, u \in BOOLEAN}
    \cup {[Default EXCEPT !.lean_fields = FALSE]}
    \cup {[Default EXCEPT ![k] = "x"] : k \in OptionalFields \ {"safe"}}
    \cup {[Default EXCEPT !.gl = ""]}

\* dt: the milliseconds measured around _cse_get
Latencies == {0, 250}

LogLevels == {"DEBUG", "INFO", "WARNING", "ERROR", "VERBOSE"}

NoApp == [kind |-> "none", cors |-> <<>>, on_shutdown |-> <<>>]

NoResp == [kind |-> "none"]

NoError ==
    [type |-> "none", kind |-> "none", status |-> 0, detailLen |-> 0,
     exc |-> "", parts |-> <<>>]

\* the text of an upstream response body, of which only the length is modelled
ResponseText == "<response.text>"

\* raise ValueError('safe must be "off" or "active" for Google CSE')
InputError ==
    [NoError EXCEPT !.type = "ValueError", !.kind = "input",
                    !.parts = <<"safe must be \"off\" or \"active\" for Google CSE">>]

\* r.json() on a 2xx body that is not JSON: json.JSONDecodeError, a
\* subclass of ValueError, passes through _cse_get and search
JSONDecodeError ==
    [NoError EXCEPT !.type = "JSONDecodeError", !.kind = "other",
                    !.parts = <<"Expecting value">>]

\* data.get on a decoded body that is no dict
AttributeError ==
    [NoError EXCEPT !.type = "AttributeError", !.kind = "other",
                    !.parts = <<"object has no attribute 'get'">>]

UpstreamErrorWithUrl(status, textLen) ==
    [NoError EXCEPT !.type = "RuntimeError", !.kind = "upstream",
                    !.status = status, !.detailLen = Excerpt(textLen),
                    !.parts = <<"Client error for url ", endpoint, params["key"], params["cx"]>>]

\* RuntimeError(f"CSE request failed ({status}): {detail}"); kind stands
\* for the fixed prefix of the message
UpstreamError(status, textLen) ==
    [NoError EXCEPT !.type = "RuntimeError", !.kind = "upstream",
                    !.status = status, !.detailLen = Excerpt(textLen),
                    !.parts = <<"CSE request failed (", ToString(status), "): ", ResponseText>>]

NetworkErrorAsUpstream(exc) ==
    [NoError EXCEPT !.type = "RuntimeError", !.kind = "upstream",
                    !.parts = <<"CSE request failed (", "0", "): ", exc>>]

\* RuntimeError(f"Network error contacting CSE: {e!s}")
NetworkError(exc) ==
    [NoError EXCEPT !.type = "RuntimeError", !.kind = "network", !.exc = exc,
                    !.parts = <<"Network error contacting CSE: ", exc>>]

\* the second call before it is made
IdlePeer ==
    [pc |-> "idle", args |-> Default, endpoint |-> "", params |-> <<>>,
     attempt |-> 0, upstream |-> <<>>, history |-> <<>>, delay |-> <<>>,
     sleeps |-> 0, result |-> <<>>, error |-> NoError]

HttpGetOwnClient(ep, ps) ==
    [endpoint |-> ep, params |-> ps, client |-> "httpx.AsyncClient()"]

\* r = await _http.get(endpoint, params=params): the request goes out
\* through the module's client
HttpGet(ep, ps) == [endpoint |-> ep, params |-> ps, client |-> "_http"]

Swallow(e) == pc' = "returned" /\ error' = error

\* raise: the exception ends the call and reaches the caller of search
Raise(e) == pc' = "raised" /\ error' = e

----------------------------------------------------------------------------
\* The state machine of one search call

\* the registration Lambda before an event arrives
DcrIdle == [phase |-> "ready"]

\* LOG_QUERIES and LOG_QUERY_TEXT unset, LOG_LEVEL unset ("INFO")
LogDefaults ==
    /\ LOG_QUERIES = FALSE
    /\ LOG_QUERY_TEXT = FALSE
    /\ LOG_LEVEL = "INFO"
    /\ logs = <<>>

\* the module has been imported: _http is constructed, nothing is served
ProcessLoaded ==
    /\ launcher = "none"
    /\ phase = "loaded"
    /\ app = NoApp
    /\ _http = "open"

Init ==
    /\ ALLOW_DOMAINS \in {{}, {ExampleCom}}
    /\ pc = "idle"
    /\ args = Default
    /\ endpoint = ""
    /\ params = <<>>
    /\ attempt = 0
    /\ upstream = <<>>
    /\ history = <<>>
    /\ resp = NoResp
    /\ delay = <<>>
    /\ sleeps = 0
    /\ data = <<>>
    /\ result = <<>>
    /\ error = NoError
    /\ LogDefaults
    /\ ProcessLoaded
    /\ peer = IdlePeer
    /\ dcr = DcrIdle

\* search is called: input hygiene, validation of safe, endpoint and
\* params; then _cse_get's first _http.get is awaited
Search(a) ==
    /\ pc = "idle"
    /\ args' = a
    /\ IF SafeRejected(a.safe)
       THEN /\ Raise(InputError)
            /\ UNCHANGED <<endpoint, params, upstream>>
       ELSE /\ pc' = "request"
            /\ endpoint' = Endpoint(a)
            /\ params' = BuildParams(a)
            /\ upstream' = <<HttpGet(Endpoint(a), BuildParams(a))>>
            /\ error' = error
    /\ UNCHANGED <<ALLOW_DOMAINS, logcfg, dcr, life, peer, logs, attempt, history, resp, delay,
                   sleeps, data, result>>

\* _http.get returns a 2xx response: r.json() is returned to search, which
\* measures dt, writes the query line when LOG_QUERIES and builds its result
HttpOk(body, dt) ==
    /\ pc = "request"
    /\ logs' = LET lg == Log(logs, AttemptRecord(attempt, 200))
               IN  IF body.kind # "not_json" /\ LOG_QUERIES
                   THEN Log(lg, QueryLine(args, params, endpoint, dt))
                   ELSE lg
    /\ history' = Append(history, [kind |-> "ok", status |-> 200])
    /\ resp' = [kind |-> "ok", body |-> body.kind]
    /\ CASE body.kind = "not_json" ->
              /\ Raise(JSONDecodeError)
              /\ UNCHANGED <<data, result>>
         [] body.kind = "array" ->
              /\ Raise(AttributeError)
              /\ UNCHANGED <<data, result>>
         [] OTHER ->
              /\ pc' = "returned"
              /\ data' = body.json
              /\ result' = BuildResult(args, params, body.json, dt)
              /\ error' = error
    /\ UNCHANGED <<ALLOW_DOMAINS, logcfg, dcr, life, peer, args, endpoint, params, attempt, upstream, delay, sleeps>>

\* raise_for_status raises HTTPStatusError and the status is retried: the
\* delay is computed and asyncio.sleep is awaited
HttpStatusRetry(status, ra, jitter) ==
    /\ pc = "request"
    /\ Retryable(status, attempt)
    /\ history' = Append(history, [kind |-> "status", status |-> status])
    /\ resp' = [kind |-> "status", status |-> status, retryAfter |-> ra, jitter |-> jitter]
    /\ delay' = <<StatusDelay(ra, jitter, attempt)>>
    /\ logs' = Log(Log(logs, AttemptRecord(attempt, status)),
                   RetryRecord(status, attempt, StatusDelay(ra, jitter, attempt)))
    /\ sleeps' = sleeps + 1
    /\ pc' = "sleep"
    /\ UNCHANGED <<ALLOW_DOMAINS, logcfg, dcr, life, peer, args, endpoint, params, attempt, upstream, data, result, error>>

\* raise_for_status raises HTTPStatusError and the status is not retried:
\* RuntimeError("CSE request failed (status): text[:500]")
HttpStatusRaise(status, textLen) ==
    /\ pc = "request"
    /\ ~Retryable(status, attempt)
    /\ history' = Append(history, [kind |-> "status", status |-> status])
    /\ resp' = [kind |-> "status", status |-> status, textLen |-> textLen]
    /\ logs' = Log(logs, AttemptRecord(attempt, status))
    /\ Raise(UpstreamError(status, textLen))
    /\ UNCHANGED <<ALLOW_DOMAINS, logcfg, dcr, life, peer, args, endpoint, params, attempt,
                   upstream, delay, sleeps, data, result>>

HttpTransportErrorThenSleep(exc, jitter) ==
    /\ pc = "request"
    /\ attempt < MaxAttempts
    /\ history' = Append(history, [kind |-> "net", status |-> 0])
    /\ resp' = [kind |-> "net", exc |-> exc, jitter |-> jitter]
    /\ delay' = <<Backoff(jitter, attempt)>>
    /\ logs' = Log(logs, NetworkRecord(attempt, Backoff(jitter, attempt), exc))
    /\ sleeps' = sleeps + 1
    /\ pc' = "sleep"
    /\ UNCHANGED <<ALLOW_DOMAINS, logcfg, dcr, life, peer, args, endpoint, params, attempt,
                   upstream, data, result, error>>

\* _http.get raises another httpx.HTTPError (a transport failure)
HttpTransportError(exc, jitter) ==
    /\ pc = "request"
    /\ history' = Append(history, [kind |-> "net", status |-> 0])
    /\ IF attempt < MaxAttempts - 1
       THEN /\ resp' = [kind |-> "net", exc |-> exc, jitter |-> jitter]
            /\ delay' = <<Backoff(jitter, attempt)>>
            /\ logs' = Log(logs, NetworkRecord(attempt, Backoff(jitter, attempt), exc))
            /\ sleeps' = sleeps + 1
            /\ pc' = "sleep"
            /\ error' = error
       ELSE /\ resp' = [kind |-> "net", exc |-> exc, jitter |-> 0]
            /\ Raise(NetworkError(exc))
            /\ UNCHANGED <<delay, sleeps, logs>>
    /\ UNCHANGED <<ALLOW_DOMAINS, logcfg, dcr, life, peer, args, endpoint, params, attempt, upstream, data, result>>

\* asyncio.sleep returns and `continue` takes the loop to the next value
\* of range(3) and its _http.get; were the range used up, the loop would
\* end and _cse_get return without a value
SleepDone ==
    /\ pc = "sleep"
    /\ resp' = NoResp
    /\ delay' = <<>>
    /\ IF attempt + 1 < MaxAttempts
       THEN /\ attempt' = attempt + 1
            /\ upstream' = Append(upstream, HttpGet(endpoint, params))
            /\ pc' = "request"
       ELSE /\ pc' = "exhausted"
            /\ UNCHANGED <<attempt, upstream>>
    /\ UNCHANGED <<ALLOW_DOMAINS, logcfg, dcr, life, peer, logs, args, endpoint, params, history,
                   sleeps, data, result, error>>

Next ==
    \/ \E a \in Requests : Search(a)
    \/ \E body \in Bodies, dt \in {250} : HttpOk(body, dt)
    \/ \E status \in ErrorStatuses, ra \in RetryAfters, jitter \in Jitters :
          HttpStatusRetry(status, ra, jitter)
    \/ \E status \in ErrorStatuses, textLen \in TextLens :
          HttpStatusRaise(status, textLen)
    \/ \E exc \in NetErrors, jitter \in Jitters : HttpTransportError(exc, jitter)
    \/ SleepDone

Spec == Init /\ [][Next]_vars

----------------------------------------------------------------------------
\* One search call under each logging configuration

LogRequests ==
    {[Default EXCEPT !.q = x, !.safe = s, !.useSiteRestrict = u] :
        x \in {<<" ", "a">>, <<"a", " ", "b">>},
        s \in {None, "active", "strict"},
        u \in BOOLEAN}

LogBodies ==
    {[kind |-> "object", json |-> JsonObject(<<<<ItemA>>>>, <<>>)],
     [kind |-> "array", json |-> <<>>],
     [kind |-> "not_json", json |-> <<>>]}

InitLog ==
    /\ ALLOW_DOMAINS = {}
    /\ pc = "idle"
    /\ args = Default
    /\ endpoint = ""
    /\ params = <<>>
    /\ attempt = 0
    /\ upstream = <<>>
    /\ history = <<>>
    /\ resp = NoResp
    /\ delay = <<>>
    /\ sleeps = 0
    /\ data = <<>>
    /\ result = <<>>
    /\ error = NoError
    /\ LOG_QUERIES \in BOOLEAN
    /\ LOG_QUERY_TEXT \in BOOLEAN
    /\ LOG_LEVEL \in LogLevels
    /\ logs = <<>>
    /\ ProcessLoaded
    /\ peer = IdlePeer
    /\ dcr = DcrIdle

NextLog ==
    \/ \E a \in LogRequests : Search(a)
    \/ \E body \in LogBodies, dt \in Latencies : HttpOk(body, dt)
    \/ \E ra \in {None, "2"} : HttpStatusRetry(503, ra, 0)
    \/ \E status \in {403, 503} : HttpStatusRaise(status, 0)
    \/ HttpTransportError("ReadTimeout", 0)
    \/ SleepDone

SpecLog == InitLog /\ [][NextLog]_vars

----------------------------------------------------------------------------
\* Two search calls in one event loop: the first call's locals are the
\* variables above, the second call's locals are the fields of peer.  Each
\* action runs one coroutine from one await to the next.

SharedAttempt == attempt

\* the loop variable `attempt` in the second call's frame of _cse_get
PeerAttempt == peer.attempt

\* asyncio.CancelledError raised at an await; no except clause of _cse_get
\* or search catches it
CancelledError ==
    [NoError EXCEPT !.type = "CancelledError", !.kind = "cancelled"]

\* the variables of the first call
callvars ==
    <<pc, args, endpoint, params, attempt, upstream, history, resp, delay,
      sleeps, data, result, error>>

\* the first call's task is cancelled while it awaits _http.get or
\* asyncio.sleep
Cancel ==
    /\ pc \in {"request", "sleep"}
    /\ pc' = "cancelled"
    /\ error' = CancelledError
    /\ UNCHANGED <<ALLOW_DOMAINS, logcfg, dcr, life, peer, logs, args, endpoint, params,
                   attempt, upstream, history, resp, delay, sleeps, data, result>>

PeerSearch(a) ==
    /\ peer.pc = "idle"
    /\ peer' = IF SafeRejected(a.safe)
               THEN [peer EXCEPT !.pc = "raised", !.args = a, !.error = InputError]
               ELSE [peer EXCEPT !.pc = "request",
                                 !.args = a,
                                 !.endpoint = Endpoint(a),
                                 !.params = BuildParams(a),
                                 !.upstream = <<HttpGet(Endpoint(a), BuildParams(a))>>]
    /\ UNCHANGED <<ALLOW_DOMAINS, logcfg, dcr, life, logs, callvars>>

PeerHttpOk(body, dt) ==
    /\ peer.pc = "request"
    /\ logs' = LET lg == Log(logs, AttemptRecord(PeerAttempt, 200))
               IN  IF body.kind # "not_json" /\ LOG_QUERIES
                   THEN Log(lg, QueryLine(peer.args, peer.params, peer.endpoint, dt))
                   ELSE lg
    /\ peer' = LET h == Append(peer.history, [kind |-> "ok", status |-> 200])
               IN  CASE body.kind = "not_json" ->
                          [peer EXCEPT !.history = h, !.pc = "raised",
                                       !.error = JSONDecodeError]
                     [] body.kind = "array" ->
                          [peer EXCEPT !.history = h, !.pc = "raised",
                                       !.error = AttributeError]
                     [] OTHER ->
                          [peer EXCEPT !.history = h, !.pc = "returned",
                                       !.result = BuildResult(peer.args, peer.params,
                                                              body.json, dt)]
    /\ UNCHANGED <<ALLOW_DOMAINS, logcfg, dcr, life, callvars>>

PeerHttpStatusRetry(status, ra, jitter) ==
    /\ peer.pc = "request"
    /\ Retryable(status, PeerAttempt)
    /\ logs' = Log(Log(logs, AttemptRecord(PeerAttempt, status)),
                   RetryRecord(status, PeerAttempt, StatusDelay(ra, jitter, PeerAttempt)))
    /\ peer' = [peer EXCEPT
                  !.history = Append(@, [kind |-> "status", status |-> status]),
                  !.delay = <<StatusDelay(ra, jitter, PeerAttempt)>>,
                  !.sleeps = @ + 1,
                  !.pc = "sleep"]
    /\ UNCHANGED <<ALLOW_DOMAINS, logcfg, dcr, life, callvars>>

PeerHttpStatusRaise(status, textLen) ==
    /\ peer.pc = "request"
    /\ ~Retryable(status, PeerAttempt)
    /\ logs' = Log(logs, AttemptRecord(PeerAttempt, status))
    /\ peer' = [peer EXCEPT
                  !.history = Append(@, [kind |-> "status", status |-> status]),
                  !.error = UpstreamError(status, textLen),
                  !.pc = "raised"]
    /\ UNCHANGED <<ALLOW_DOMAINS, logcfg, dcr, life, callvars>>

PeerHttpTransportError(exc, jitter) ==
    /\ peer.pc = "request"
    /\ IF PeerAttempt < MaxAttempts - 1
       THEN /\ logs' = Log(logs, NetworkRecord(PeerAttempt, Backoff(jitter, PeerAttempt), exc))
            /\ peer' = [peer EXCEPT
                          !.history = Append(@, [kind |-> "net", status |-> 0]),
                          !.delay = <<Backoff(jitter, PeerAttempt)>>,
                          !.sleeps = @ + 1,
                          !.pc = "sleep"]
       ELSE /\ logs' = logs
            /\ peer' = [peer EXCEPT
                          !.history = Append(@, [kind |-> "net", status |-> 0]),
                          !.error = NetworkError(exc),
                          !.pc = "raised"]
    /\ UNCHANGED <<ALLOW_DOMAINS, logcfg, dcr, life, callvars>>

PeerSleepDone ==
    /\ peer.pc = "sleep"
    /\ peer' = IF peer.attempt + 1 < MaxAttempts
               THEN [peer EXCEPT
                       !.attempt = @ + 1,
                       !.upstream = Append(@, HttpGet(peer.endpoint, peer.params)),
                       !.delay = <<>>,
                       !.pc = "request"]
               ELSE [peer EXCEPT !.delay = <<>>, !.pc = "exhausted"]
    /\ UNCHANGED <<ALLOW_DOMAINS, logcfg, dcr, life, logs, callvars>>

PeerCancel ==
    /\ peer.pc \in {"request", "sleep"}
    /\ peer' = [peer EXCEPT !.pc = "cancelled", !.error = CancelledError]
    /\ UNCHANGED <<ALLOW_DOMAINS, logcfg, dcr, life, logs, callvars>>

\* the two calls, with different queries
FirstRequests ==
    {[Default EXCEPT !.q = <<"a">>], [Default EXCEPT !.q = <<"a">>, !.safe = "strict"]}

PeerRequests ==
    {[Default EXCEPT !.q = <<"b">>], [Default EXCEPT !.q = <<"b">>, !.useSiteRestrict = TRUE]}

TwoBodies == {[kind |-> "object", json |-> JsonObject(<<<<ItemA>>>>, <<>>)]}

InitTwo ==
    /\ ALLOW_DOMAINS = {}
    /\ pc = "idle"
    /\ args = Default
    /\ endpoint = ""
    /\ params = <<>>
    /\ attempt = 0
    /\ upstream = <<>>
    /\ history = <<>>
    /\ resp = NoResp
    /\ delay = <<>>
    /\ sleeps = 0
    /\ data = <<>>
    /\ result = <<>>
    /\ error = NoError
    /\ LogDefaults
    /\ ProcessLoaded
    /\ peer = IdlePeer
    /\ dcr = DcrIdle

NextTwo ==
    \/ \E a \in FirstRequests : Search(a)
    \/ \E body \in TwoBodies : HttpOk(body, 250)
    \/ HttpStatusRetry(503, None, 0)
    \/ \E status \in {403, 503} : HttpStatusRaise(status, 0)
    \/ HttpTransportError("ReadTimeout", 0)
    \/ SleepDone
    \/ Cancel
    \/ \E a \in PeerRequests : PeerSearch(a)
    \/ \E body \in TwoBodies : PeerHttpOk(body, 250)
    \/ PeerHttpStatusRetry(503, None, 0)
    \/ \E status \in {403, 503} : PeerHttpStatusRaise(status, 0)
    \/ PeerHttpTransportError("ReadTimeout", 0)
    \/ PeerSleepDone
    \/ PeerCancel

SpecTwo == InitTwo /\ [][NextTwo]_vars

----------------------------------------------------------------------------
\* One call whose awaits all complete: every _http.get is answered or
\* fails, and every asyncio.sleep returns

LiveRequests ==
    {[Default EXCEPT !.q = <<"a">>], [Default EXCEPT !.q = <<"a">>, !.safe = "high"]}

\* the awaited _http.get completes, with any outcome
Respond ==
    \/ \E body \in LogBodies : HttpOk(body, 250)
    \/ \E status \in ErrorStatuses, ra \in RetryAfters, jitter \in Jitters :
          HttpStatusRetry(status, ra, jitter)
    \/ \E status \in ErrorStatuses, textLen \in TextLens :
          HttpStatusRaise(status, textLen)
    \/ \E exc \in NetErrors, jitter \in Jitters : HttpTransportError(exc, jitter)

NextLive ==
    \/ \E a \in LiveRequests : Search(a)
    \/ Respond
    \/ SleepDone

SpecLive ==
    Init /\ [][NextLive]_vars /\ WF_vars(Respond) /\ WF_vars(SleepDone)

----------------------------------------------------------------------------
\* The launchers: server.main (stdio), server_http.main (SSE) and
\* server_http_stream.main (streamable HTTP)

\* str.split(","), cur the segment being read
RECURSIVE Split(_, _)
Split(s, cur) ==
    IF s = <<>>
    THEN <<cur>>
    ELSE IF Head(s) = ","
         THEN <<cur>> \o Split(Tail(s), <<>>)
         ELSE Split(Tail(s), Append(cur, Head(s)))

OriginsUnfiltered(cors_origins) ==
    IF Strip(cors_origins) = <<"*">>
    THEN <<<<"*">>>>
    ELSE Split(cors_origins, <<>>)

\* ["*"] if cors_origins.strip() == "*"
\* else [o.strip() for o in cors_origins.split(",") if o.strip()]
Origins(cors_origins) ==
    IF Strip(cors_origins) = <<"*">>
    THEN <<<<"*">>>>
    ELSE LET segs == Split(cors_origins, <<>>)
             stripped == [i \in 1..Len(segs) |-> Strip(segs[i])]
         IN  SelectSeq(stripped, LAMBDA o : o # <<>>)

\* int(port_str), 8000 on ValueError
ParsePort(port_str) ==
    CASE port_str = "8000" -> 8000
      [] port_str = "9000" -> 9000
      [] port_str = " 8080 " -> 8080
      [] OTHER -> 8000

\* os.environ.get(name, default), the variable being <<>> (unset) or <<text>>
EnvGet(value, default) == IF value = <<>> THEN default ELSE value[1]

\* get_app(): the FastMCP ASGI app, the CORS middleware when there are
\* origins, and the shutdown handler
GetApp(kind, cors_env) ==
    LET origins == Origins(EnvGet(cors_env, <<"*">>))
    IN  [kind |-> kind,
         cors |-> IF origins # <<>>
                  THEN <<[allow_origins |-> origins,
                          allow_credentials |-> TRUE,
                          allow_methods |-> <<"*">>,
                          allow_headers |-> <<"*">>]>>
                  ELSE <<>>,
         on_shutdown |-> <<"close_http_client">>]

\* close_http_client: try: await _http.aclose() except Exception: pass;
\* outcome is what aclose does
close_http_client(client, outcome) ==
    IF outcome = "ok" THEN "closed" ELSE "close_failed"

\* the texts CORS_ORIGINS is set to
CorsValues ==
    {<<"*">>, <<" ", "*", " ">>, <<>>, <<",", " ">>,
     <<"https://a.example">>,
     <<"https://a.example", ",", " ", "https://b.example", ",">>,
     <<" ", "https://b.example", " ", ",", ",", "*">>}

\* CORS_ORIGINS in the environment: unset, or set to a text
CorsEnvs == {<<>>} \cup {<<v>> : v \in CorsValues}

Hosts == {"127.0.0.1", "0.0.0.0"}

PortStrs == {"8000", "9000", " 8080 ", "", "http"}

\* what aclose() does: returns, or raises an Exception
CloseOutcomes == {"ok", "RuntimeError"}

\* server.main(): mcp.run() serves over stdin/stdout
StdioMain ==
    /\ phase = "loaded"
    /\ launcher' = "stdio"
    /\ app' = NoApp
    /\ phase' = "serving"
    /\ UNCHANGED <<ALLOW_DOMAINS, logcfg, dcr, logs, peer, _http, pc, args, endpoint, params,
                   attempt, upstream, history, resp, delay, sleeps, data, result, error>>

\* main() of server_http or server_http_stream: uvicorn.run builds the
\* app with get_app and serves it on host:port
HttpMain(kind, cors_env, host, port_str) ==
    /\ phase = "loaded"
    /\ launcher' = kind
    /\ app' = [app |-> GetApp(kind, cors_env),
               env |-> [CORS_ORIGINS |-> cors_env, HOST |-> host, PORT |-> port_str],
               host |-> host,
               port |-> ParsePort(port_str)]
    /\ phase' = "serving"
    /\ UNCHANGED <<ALLOW_DOMAINS, logcfg, dcr, logs, peer, _http, pc, args, endpoint, params,
                   attempt, upstream, history, resp, delay, sleeps, data, result, error>>

\* mcp.run() returns (stdin closed or interrupt) and the process ends;
\* nothing is registered to run
StdioExit ==
    /\ phase = "serving"
    /\ launcher = "stdio"
    /\ phase' = "exited"
    /\ UNCHANGED <<ALLOW_DOMAINS, logcfg, dcr, logs, peer, launcher, app, _http, pc, args,
                   endpoint, params, attempt, upstream, history, resp, delay, sleeps,
                   data, result, error>>

\* the ASGI server shuts down: the app's shutdown handlers run, then the
\* process ends
HttpShutdown(outcome) ==
    /\ phase = "serving"
    /\ launcher \in {"sse", "streamable"}
    /\ _http' = IF \E i \in 1..Len(app.app.on_shutdown) :
                       app.app.on_shutdown[i] = "close_http_client"
                THEN close_http_client(_http, outcome)
                ELSE _http
    /\ phase' = "exited"
    /\ UNCHANGED <<ALLOW_DOMAINS, logcfg, dcr, logs, peer, launcher, app, pc, args,
                   endpoint, params, attempt, upstream, history, resp, delay, sleeps,
                   data, result, error>>

InitLife ==
    /\ ALLOW_DOMAINS = {}
    /\ pc = "idle"
    /\ args = Default
    /\ endpoint = ""
    /\ params = <<>>
    /\ attempt = 0
    /\ upstream = <<>>
    /\ history = <<>>
    /\ resp = NoResp
    /\ delay = <<>>
    /\ sleeps = 0
    /\ data = <<>>
    /\ result = <<>>
    /\ error = NoError
    /\ LogDefaults
    /\ ProcessLoaded
    /\ peer = IdlePeer
    /\ dcr = DcrIdle

NextLife ==
    \/ StdioMain
    \/ \E kind \in {"sse", "streamable"}, cors_env \in CorsEnvs,
          host \in Hosts, port_str \in PortStrs :
          HttpMain(kind, cors_env, host, port_str)
    \/ StdioExit
    \/ \E outcome \in CloseOutcomes : HttpShutdown(outcome)

SpecLife == InitLife /\ [][NextLife]_vars

----------------------------------------------------------------------------
\* The client-registration Lambda (src/deploy/oauth_dcr_handler.py).
\* Environment variables and optional request fields are <<>> (unset) or
\* <<value>>; the Authorization header and scope are token sequences.

\* str.split(): the words of a text
Words(s) == SelectSeq(s, LAMBDA t : t \notin Whitespace)

\* truth value of an optional str
Set(opt) == opt # <<>> /\ opt[1] # ""

\* truth value of an optional text given as tokens
SetText(opt) == opt # <<>> /\ opt[1] # <<>>

ParseBearerAnyScheme(auth) ==
    IF ~SetText(auth)
    THEN <<>>
    ELSE LET parts == Words(auth[1])
         IN  IF Len(parts) = 2 THEN <<parts[2]>> ELSE <<>>

_parse_bearer(auth) ==
    IF ~SetText(auth)
    THEN <<>>
    ELSE LET parts == Words(auth[1])
         IN  IF Len(parts) = 2 /\ LowerTok(parts[1]) = "bearer"
             THEN <<parts[2]>>
             ELSE <<>>

_bool_env(value, default) ==
    IF value = <<>>
    THEN default
    ELSE LowerTok(value[1]) \in {"1", "true", "yes", "y", "on"}

_to_scopes(scope_str) == IF ~SetText(scope_str) THEN <<>> ELSE Words(scope_str[1])

\* " ".join(scopes)
RECURSIVE JoinSpace(_)
JoinSpace(ws) ==
    IF ws = <<>> THEN <<>>
    ELSE IF Len(ws) = 1 THEN ws
    ELSE <<Head(ws), " ">> \o JoinSpace(Tail(ws))

_json(env, body, status) ==
    [statusCode |-> status,
     headers |-> [ContentType |-> "application/json",
                  AccessControlAllowOrigin |-> EnvGet(env.CORS_ALLOW_ORIGIN, "*"),
                  AccessControlAllowHeaders |-> "authorization,content-type",
                  AccessControlAllowMethods |-> "POST,OPTIONS"],
     body |-> body]

\* {k.lower(): v for k, v in headers.items()}.get(name): the value of the
\* last header whose lower-cased name is name
HeaderGet(hs, name) ==
    LET at == {i \in 1..Len(hs) : LowerTok(hs[i][1]) = name}
    IN  IF at = {} THEN <<>> ELSE <<hs[CHOOSE i \in at : \A j \in at : j <= i][2]>>

\* d.get(k) or default, for a str
GetOr(d, k, default) ==
    IF k \in DOMAIN d /\ d[k] # "" THEN d[k] ELSE default

\* d.get(k) or default, for a list
GetOrList(d, k, default) ==
    IF k \in DOMAIN d /\ d[k] # <<>> THEN d[k] ELSE default

\* g.replace("_", "-")
ReplaceUnderscore(g) ==
    CASE g = "authorization_code" -> "authorization-code"
      [] g = "client_credentials" -> "client-credentials"
      [] g = "refresh_token" -> "refresh-token"
      [] OTHER -> g

Has(seq, x) == \E i \in 1..Len(seq) : seq[i] = x

\* the mapping of grant_types to Cognito AllowedOAuthFlows, before the
\* default is applied
AllowedFlows(grant_types, allow_auth_code, allow_client_credentials) ==
    (IF /\ allow_auth_code
        /\ \/ Has(grant_types, "authorization_code")
           \/ \E i \in 1..Len(grant_types) :
                 ReplaceUnderscore(grant_types[i]) = "authorization-code"
     THEN <<"code">> ELSE <<>>)
    \o (IF allow_client_credentials /\ Has(grant_types, "client_credentials")
        THEN <<"client_credentials">> ELSE <<>>)
    \o (IF allow_auth_code /\ Has(grant_types, "implicit")
        THEN <<"implicit">> ELSE <<>>)

ErrorBody(code, description) ==
    [error |-> code, error_description |-> description]

\* handler(event, context): the HTTP answer and the calls made to
\* cognito.create_user_pool_client; outcome is what that call does and
\* ts is int(time.time())
handler(env, event, outcome, ts) ==
    LET Answer(r) == [response |-> r, cognito |-> <<>>]
    IN
    IF event.httpMethod = "OPTIONS"
    THEN Answer(_json(env, [status |-> "ok"], 200))
    ELSE IF event.ping
    THEN Answer(_json(env, [status |-> "ok", handler |-> "oauth-dcr", ts |-> ts], 200))
    ELSE IF ~Set(env.USER_POOL_ID)
    THEN Answer(_json(env, ErrorBody("server_error", "Missing USER_POOL_ID"), 500))
    ELSE
    LET require_iat == _bool_env(env.REQUIRE_INITIAL_ACCESS_TOKEN, TRUE)
        expected_iat == env.INITIAL_ACCESS_TOKEN
        provided_token == _parse_bearer(HeaderGet(event.headers, "authorization"))
    IN
    IF require_iat /\ ~Set(expected_iat)
    THEN Answer(_json(env, ErrorBody("server_error", "Missing INITIAL_ACCESS_TOKEN in env"), 500))
    ELSE IF require_iat /\ provided_token # expected_iat
    THEN Answer(_json(env, ErrorBody("invalid_token",
                                     "Invalid or missing initial access token"), 401))
    ELSE IF event.body.kind = "invalid"
    THEN Answer(_json(env, ErrorBody("invalid_client_metadata", "Invalid JSON body"), 400))
    ELSE
    LET req == event.body.req
        client_name == GetOr(req, "client_name", "registered-client-ts")
        redirect_uris == GetOrList(req, "redirect_uris", <<>>)
        token_endpoint_auth_method ==
            LowerTok(GetOr(req, "token_endpoint_auth_method", "client_secret_basic"))
        grant_types == GetOrList(req, "grant_types", <<"client_credentials">>)
        scopes == _to_scopes(IF "scope" \in DOMAIN req /\ req["scope"] # <<>>
                             THEN <<req["scope"]>>
                             ELSE <<EnvGet(env.DEFAULT_SCOPES, <<"openid">>)>>)
        allow_auth_code == _bool_env(env.ALLOW_AUTH_CODE, FALSE)
        allow_client_credentials == _bool_env(env.ALLOW_CLIENT_CREDENTIALS, TRUE)
        mapped == AllowedFlows(grant_types, allow_auth_code, allow_client_credentials)
    IN
    IF mapped = <<>> /\ ~allow_client_credentials
    THEN Answer(_json(env, ErrorBody("unsupported_grant_type", "No allowed grant types"), 400))
    ELSE
    LET allowed_oauth_flows == IF mapped = <<>> THEN <<"client_credentials">> ELSE mapped
        generate_secret ==
            token_endpoint_auth_method \in {"client_secret_basic", "client_secret_post"}
        base == [UserPoolId |-> env.USER_POOL_ID[1],
                 ClientName |-> client_name,
                 GenerateSecret |-> generate_secret,
                 AllowedOAuthFlowsUserPoolClient |-> TRUE,
                 AllowedOAuthFlows |-> allowed_oauth_flows,
                 SupportedIdentityProviders |-> Origins(EnvGet(env.SUPPORTED_IDPS, <<"COGNITO">>)),
                 AllowedOAuthScopes |-> scopes,
                 CallbackURLs |-> redirect_uris]
        drop == (IF scopes = <<>> THEN {"AllowedOAuthScopes"} ELSE {})
                \cup (IF redirect_uris = <<>> THEN {"CallbackURLs"} ELSE {})
        cognito_params == [k \in (DOMAIN base) \ drop |-> base[k]]
        out == [client_id |-> "client-id",
                client_id_issued_at |-> ts,
                client_name |-> client_name,
                token_endpoint_auth_method |-> token_endpoint_auth_method,
                grant_types |-> grant_types,
                scope |-> JoinSpace(scopes),
                redirect_uris |-> redirect_uris,
                client_secret |-> "client-secret"]
        shaped == [k \in (DOMAIN out) \ (IF generate_secret THEN {} ELSE {"client_secret"})
                      |-> out[k]]
    IN  [response |->
            CASE outcome = "ok" -> _json(env, shaped, 201)
              [] outcome = "ClientError" ->
                   _json(env, ErrorBody("server_error", "Cognito error: code"), 500)
              [] OTHER -> _json(env, ErrorBody("server_error", "str(e)"), 500),
         cognito |-> <<cognito_params>>]

\* the environment of the Lambda
DcrEnvs ==
    [USER_POOL_ID : {<<>>, <<"us-east-1_POOL">>},
     REQUIRE_INITIAL_ACCESS_TOKEN : {<<>>, <<"TRUE">>, <<"false">>},
     INITIAL_ACCESS_TOKEN : {<<>>, <<"">>, <<"secret">>},
     ALLOW_AUTH_CODE : {<<>>, <<"true">>},
     ALLOW_CLIENT_CREDENTIALS : {<<>>, <<"false">>},
     DEFAULT_SCOPES : {<<>>},
     SUPPORTED_IDPS : {<<>>},
     CORS_ALLOW_ORIGIN : {<<>>}]

GoodAuth == <<<<"Authorization", <<"Bearer", " ", "secret">>>>>>

\* the Authorization headers of a request
AuthHeaders ==
    {<<>>,
     GoodAuth,
     <<<<"authorization", <<"bearer", " ", " ", "secret">>>>>>,
     <<<<"Authorization", <<"Bearer", " ", "wrong">>>>>>,
     <<<<"Authorization", <<"secret">>>>>>,
     <<<<"Authorization", <<"Basic", " ", "secret">>>>>>,
     <<<<"Authorization", <<"Bearer", " ", "secret", " ", "x">>>>>>,
     <<<<"Authorization", <<>>>>>>,
     <<<<"Authorization", <<"Bearer", " ", "secret">>>>,
       <<"authorization", <<"Bearer", " ", "wrong">>>>>>}

GrantLists ==
    {<<>>, <<"client_credentials">>, <<"authorization_code">>,
     <<"authorization_code", "client_credentials">>, <<"implicit">>,
     <<"authorization-code">>}

NoFields == <<>>

\* the JSON bodies of a request
DcrBodies ==
    {[kind |-> "json", req |-> NoFields], [kind |-> "invalid", req |-> NoFields]}
    \cup {[kind |-> "json", req |-> [grant_types |-> g]] : g \in GrantLists}
    \cup {[kind |-> "json",
           req |-> [grant_types |-> <<"authorization_code">>,
                    redirect_uris |-> <<"https://app.example/cb">>,
                    token_endpoint_auth_method |-> "none",
                    scope |-> <<"openid", " ", " ", "profile">>]]}

\* the events: each header with the plain body, each body with the good
\* header, a CORS preflight and a health ping
DcrEvents ==
    {[httpMethod |-> "POST", ping |-> FALSE, headers |-> h,
      body |-> [kind |-> "json", req |-> NoFields]] : h \in AuthHeaders}
    \cup {[httpMethod |-> "POST", ping |-> FALSE, headers |-> GoodAuth, body |-> b] :
            b \in DcrBodies}
    \cup {[httpMethod |-> m, ping |-> pg, headers |-> <<>>,
           body |-> [kind |-> "json", req |-> NoFields]] :
            m \in {"OPTIONS", None}, pg \in BOOLEAN}

CognitoOutcomes == {"ok", "ClientError", "Exception"}

\* the Lambda is invoked with an event and answers
DcrInvoke(event, outcome) ==
    /\ dcr.phase = "ready"
    /\ dcr' = [phase |-> "done",
               env |-> dcr.env,
               event |-> event,
               response |-> handler(dcr.env, event, outcome, 1700000000).response,
               cognito |-> handler(dcr.env, event, outcome, 1700000000).cognito]
    /\ UNCHANGED <<ALLOW_DOMAINS, logcfg, logs, life, peer, callvars>>

InitDcr ==
    /\ ALLOW_DOMAINS = {}
    /\ pc = "idle"
    /\ args = Default
    /\ endpoint = ""
    /\ params = <<>>
    /\ attempt = 0
    /\ upstream = <<>>
    /\ history = <<>>
    /\ resp = NoResp
    /\ delay = <<>>
    /\ sleeps = 0
    /\ data = <<>>
    /\ result = <<>>
    /\ error = NoError
    /\ LogDefaults
    /\ ProcessLoaded
    /\ peer = IdlePeer
    /\ dcr \in {[phase |-> "ready", env |-> e] : e \in DcrEnvs}

NextDcr ==
    \E event \in DcrEvents, outcome \in CognitoOutcomes : DcrInvoke(event, outcome)

SpecDcr == InitDcr /\ [][NextDcr]_vars

----------------------------------------------------------------------------
\* _normalize on its own: the allowlist and the upstream items are drawn
\* at the start and the function is applied to them

\* _normalize(None)
NoItems == <<>>

\* items or []
ItemsOrEmpty(d) == IF "items" \in DOMAIN d THEN d["items"] ELSE <<>>

InitNormalize ==
    /\ ALLOW_DOMAINS \in AllowLists
    /\ pc = "normalize"
    /\ args = Default
    /\ endpoint = ""
    /\ params = <<>>
    /\ attempt = 0
    /\ upstream = <<>>
    /\ history = <<>>
    /\ resp = NoResp
    /\ delay = <<>>
    /\ sleeps = 0
    /\ data \in {[items |-> l] : l \in SeqsUpTo(NormItems, MaxNormItems)} \cup {NoItems}
    /\ result = <<>>
    /\ error = NoError
    /\ LogDefaults
    /\ ProcessLoaded
    /\ peer = IdlePeer
    /\ dcr = DcrIdle

\* the argument is a list, or None (no "items" here), which `items or []`
\* reads as the empty list
NormalizeCall ==
    /\ pc = "normalize"
    /\ result' = [results |-> _normalize(ItemsOrEmpty(data))]
    /\ pc' = "normalized"
    /\ UNCHANGED <<ALLOW_DOMAINS, logcfg, dcr, life, peer, logs, args, endpoint, params, attempt,
                   upstream, history, resp, delay, sleeps, data, error>>

NextNormalize == NormalizeCall

SpecNormalize == InitNormalize /\ [][NextNormalize]_vars

----------------------------------------------------------------------------
\* Properties

\* _normalize has run: at the end of a successful search, or on its own
Normalized == pc \in {"returned", "normalized"}

\* the items _normalize was given
UpstreamItems == IF "items" \in DOMAIN data THEN data["items"] ELSE <<>>

Titles(s) == [i \in 1..Len(s) |-> Get(s[i], "title")]

RetryableFailure(h) ==
    \/ h.kind = "net"
    \/ h.kind = "status" /\ h.status \in {429, 500, 502, 503, 504}

\* C1: in the results of every successful search, results[i].rank = i+1
\* for every 0-based index i (contiguous and 1-based), also when the
\* allowlist has dropped upstream items.
C1_RanksContiguous ==
    pc = "returned" =>
        \A i \in 1..Len(result.results) : result.results[i].rank = i

\* C2: with a non-empty allowlist every result's host ends with some
\* allowlist entry, and the results are exactly the upstream items whose
\* host does, in upstream order; for {example.com} and the links of
\* example.com, evil.com, sub.example.com the results are the first and
\* the third.
C2_AllowlistFilters ==
    (Normalized /\ ALLOW_DOMAINS # {}) =>
        LET Matches(it) ==
                \E dom \in ALLOW_DOMAINS : EndsWith(Host(Get(it, "link")), dom)
            res == result.results
        IN  /\ \A i \in 1..Len(res) :
                  \E dom \in ALLOW_DOMAINS : EndsWith(Host(res[i].url), dom)
            /\ [i \in 1..Len(res) |-> res[i].title]
                  = Titles(SelectSeq(UpstreamItems, Matches))
            /\ (ALLOW_DOMAINS = {ExampleCom} /\ UpstreamItems = <<ItemA, ItemB, ItemC>>) =>
                  [i \in 1..Len(res) |-> res[i].url] = <<<<ItemA.link>>, <<ItemC.link>>>>

C2_Witness ==
    /\ pc = "normalized"
    /\ ALLOW_DOMAINS = {ExampleCom}
    /\ UpstreamItems = <<ItemA, ItemB, ItemC>>
    /\ Len(result.results) = 2

\* C3: with an allowlist, every kept result's host is a permitted domain
\* or a subdomain of one (the entry preceded by a dot); a host that only
\* ends with the characters of an entry is discarded.
C3_OnlyPermittedDomains ==
    (Normalized /\ ALLOW_DOMAINS # {}) =>
        \A i \in 1..Len(result.results) :
            \E dom \in ALLOW_DOMAINS :
                \/ Host(result.results[i].url) = dom
                \/ EndsWith(Host(result.results[i].url), <<".">> \o dom)

\* C4: the query echoed by a successful search has no "key" field and no
\* text field holding the API key, while every upstream request carried
\* the key.
C4_EchoHasNoKey ==
    pc = "returned" =>
        /\ "key" \notin DOMAIN result.query
        /\ \A f \in DOMAIN result.query \ {"q", "num", "start"} :
              result.query[f] # GOOGLE_API_KEY
        /\ \A i \in 1..Len(upstream) : upstream[i].params["key"] = GOOGLE_API_KEY

C4_Witness ==
    /\ pc = "returned"
    /\ Len(upstream) = 2
    /\ upstream[2].params["key"] = GOOGLE_API_KEY
    /\ result.query.q = <<"a", " ", "b">>

\* C5: the query echoed by a successful search has a "cx" entry equal to
\* the search-engine id in effect (cxOverride, else GOOGLE_CX).
C5_EchoHasCx ==
    pc = "returned" =>
        /\ "cx" \in DOMAIN result.query
        /\ result.query["cx"] = (IF Truthy(args.cxOverride) THEN args.cxOverride ELSE GOOGLE_CX)

\* C6: the num sent upstream on every attempt, and echoed, is
\* min(10, max(1, num)); a call is rejected before its request only for
\* its safe value, never for num.
C6_NumClamped ==
    LET want == Min(10, Max(1, args.num))
    IN  /\ \A i \in 1..Len(upstream) : upstream[i].params["num"] = want
        /\ pc = "returned" => result.query.num = want
        /\ (pc # "idle" /\ upstream = <<>>) =>
              (error.kind = "input" /\ args.safe \notin {None, "", "off", "active"})

C6_Witness ==
    /\ pc = "returned"
    /\ args.num = 99
    /\ upstream[1].params["num"] = 10
    /\ result.query.num = 10

\* C7: the start sent upstream on every attempt, and echoed, is
\* max(1, start), with no upper clamp; a call is never rejected for start.
C7_StartClamped ==
    LET want == IF args.start < 1 THEN 1 ELSE args.start
    IN  /\ \A i \in 1..Len(upstream) : upstream[i].params["start"] = want
        /\ pc = "returned" => result.query.start = want
        /\ (pc # "idle" /\ args.safe = None) => upstream # <<>>

C7_Witness ==
    /\ pc = "returned"
    /\ args.start = -5
    /\ upstream[1].params["start"] = 1
    /\ result.query.start = 1

C9_SucceedsAfterRetries ==
    \A k \in {1, 2} :
        /\ (Len(history) = k /\ \A i \in 1..k : RetryableFailure(history[i])) =>
              \/ pc = "sleep" /\ Len(upstream) = k
              \/ pc = "request" /\ Len(upstream) = k + 1
        /\ (/\ Len(history) = k + 1
            /\ \A i \in 1..k : RetryableFailure(history[i])
            /\ history[k + 1].kind = "ok"
            /\ resp.body = "object") =>
              (pc = "returned" /\ Len(upstream) = k + 1)

C9_Witness ==
    /\ pc = "returned"
    /\ Len(history) = 3
    /\ history[1] = [kind |-> "status", status |-> 503]
    /\ history[2] = [kind |-> "status", status |-> 503]
    /\ history[3].kind = "ok"
    /\ Len(upstream) = 3

C11_AtMostThreeAttempts ==
    /\ Len(upstream) <= 3
    /\ Len(history) <= Len(upstream)
    /\ sleeps <= 2
    /\ \A k \in 1..3 :
          (Len(history) = k /\ \A i \in 1..k : RetryableFailure(history[i])) =>
              /\ Len(upstream) \in {k, k + 1}
              /\ k = 3 => (pc = "raised" /\ Len(upstream) = 3 /\ sleeps = 2)
              /\ k < 3 => pc \in {"sleep", "request"}

C11_Witness ==
    /\ pc = "raised"
    /\ history = <<[kind |-> "net", status |-> 0],
                   [kind |-> "status", status |-> 503],
                   [kind |-> "net", status |-> 0]>>
    /\ resp.exc = "ReadTimeout"
    /\ Len(upstream) = 3

C13_ResultOnlyAfterSuccess ==
    /\ pc = "returned" =>
          /\ history # <<>>
          /\ Last(history).kind = "ok"
          /\ result # <<>>
    /\ (/\ pc \notin {"idle", "request", "sleep"}
        /\ \A i \in 1..Len(history) : history[i].kind # "ok") =>
          (pc = "raised" /\ result = <<>> /\ error # NoError)

C13_Witness ==
    /\ pc = "raised"
    /\ Len(history) = 3
    /\ \A i \in 1..3 : history[i].kind = "status" /\ history[i].status = 500
    /\ result = <<>>
    /\ error.kind = "upstream"

\* C14: a call that fails does so with one of three kinds of error:
\* input validation (ValueError, before any request), upstream error or
\* network error; never with another exception, and never with a
\* ValueError after a request was made.
C14_ThreeErrorKinds ==
    pc = "raised" =>
        /\ error.kind \in {"input", "upstream", "network"}
        /\ error.type \in {"ValueError", "RuntimeError"}
        /\ error.kind = "input" <=> upstream = <<>>

\* C15: no part of an error message is the API key or a search-engine
\* id, and the message is determined by the upstream behaviour (status,
\* body text, exception text) and fixed text alone.
C15_NoCredentialInErrors ==
    pc = "raised" =>
        /\ \A i \in 1..Len(error.parts) :
              error.parts[i] \notin {GOOGLE_API_KEY, GOOGLE_CX, Cx(args)}
        /\ error.parts =
              (IF history = <<>>
               THEN <<"safe must be \"off\" or \"active\" for Google CSE">>
               ELSE CASE Last(history).kind = "status" ->
                           <<"CSE request failed (", ToString(Last(history).status),
                             "): ", ResponseText>>
                      [] Last(history).kind = "net" ->
                           <<"Network error contacting CSE: ", resp.exc>>
                      [] OTHER ->
                           IF resp.body = "not_json"
                           THEN <<"Expecting value">>
                           ELSE <<"object has no attribute 'get'">>)

C15_Witness ==
    /\ pc = "raised"
    /\ args.cxOverride = "other_cx"
    /\ upstream[1].params["cx"] = "other_cx"
    /\ upstream[1].params["key"] = GOOGLE_API_KEY
    /\ error.parts = <<"CSE request failed (", "403", "): ", ResponseText>>

C20_EndpointBySiteRestrict ==
    \A i \in 1..Len(upstream) :
        /\ upstream[i].endpoint =
              (IF args.useSiteRestrict
               THEN "https://www.googleapis.com/customsearch/v1/siterestrict"
               ELSE "https://www.googleapis.com/customsearch/v1")
        /\ upstream[i].endpoint = upstream[1].endpoint

C20_Witness ==
    /\ Len(upstream) = 3
    /\ args.useSiteRestrict
    /\ upstream[3].endpoint = "https://www.googleapis.com/customsearch/v1/siterestrict"
    /\ history[1].kind = "net"
    /\ history[2].kind = "status"

\* the positions in logs of the query lines ("search ...")
QueryLines == {i \in 1..Len(logs) : logs[i].name = "search"}

\* a record that carries the text t in one of its text fields
HasText(rec, t) == \E k \in DOMAIN rec.texts : rec.texts[k] = t

\* C17 as stated: a successful call has written exactly one query line
\* when LOG_QUERIES is enabled and none when it is disabled.
C17_QueryLineIffLogQueries ==
    pc = "returned" =>
        Cardinality(QueryLines) = (IF LOG_QUERIES THEN 1 ELSE 0)

\* C17 as amended: a successful call has written exactly one query line
\* when LOG_QUERIES is enabled and the log level admits INFO records, and
\* none otherwise; the line carries the query hash and the latency, and
\* the query text exactly when LOG_QUERY_TEXT is enabled; with
\* LOG_QUERY_TEXT disabled no record of the call, debug records of failed
\* and retried attempts included, carries the query text.
C17_QueryLineWhenInfoAdmitted ==
    /\ pc = "returned" =>
          /\ Cardinality(QueryLines) =
                (IF LOG_QUERIES /\ LOG_LEVEL \notin {"WARNING", "ERROR"} THEN 1 ELSE 0)
          /\ \A i \in QueryLines :
                /\ logs[i].texts["q_hash"] = result.trace.q_hash
                /\ logs[i].ints["dt_ms"] = result.latency_ms
                /\ "q" \in DOMAIN logs[i].texts <=> LOG_QUERY_TEXT
                /\ LOG_QUERY_TEXT => logs[i].texts["q"] = result.query.q
    /\ ~LOG_QUERY_TEXT =>
          \A i \in 1..Len(logs) :
              /\ ~HasText(logs[i], args.q)
              /\ ~HasText(logs[i], Strip(args.q))

C17_Witness ==
    /\ pc = "returned"
    /\ LOG_QUERIES
    /\ ~LOG_QUERY_TEXT
    /\ LOG_LEVEL = "DEBUG"
    /\ Len(history) = 3
    /\ history[1].kind = "net"
    /\ history[2].kind = "status"
    /\ QueryLines = {5}
    /\ logs[1].name = "cse_get network error"
    /\ logs[5].ints["dt_ms"] = 250

\* C18: when the process of any launcher (stdio, SSE, streamable HTTP)
\* has shut down, close_http_client was registered and has run, so the
\* shared client is no longer open.
C18_ClientClosedOnShutdown ==
    phase = "exited" => _http # "open"

\* the first call and the second call as records of the same shape
Call1 ==
    [pc |-> pc, args |-> args, attempt |-> attempt, upstream |-> upstream,
     history |-> history, sleeps |-> sleeps, result |-> result, error |-> error]

Call2 ==
    [pc |-> peer.pc, args |-> peer.args, attempt |-> peer.attempt,
     upstream |-> peer.upstream, history |-> peer.history,
     sleeps |-> peer.sleeps, result |-> peer.result, error |-> peer.error]

\* the state of call c is the one its own arguments and its own upstream
\* answers give: its requests carry its own query, its attempts and
\* sleeps count its own failures, and its outcome is that of its own last
\* attempt.
OwnCourse(c) ==
    LET n == Len(c.history)
        own == [endpoint |-> (IF c.args.useSiteRestrict
                              THEN "https://www.googleapis.com/customsearch/v1/siterestrict"
                              ELSE "https://www.googleapis.com/customsearch/v1"),
                q |-> Strip(c.args.q)]
    IN  /\ Len(c.upstream) <= 3
        /\ \A i \in 1..Len(c.upstream) :
              /\ c.upstream[i].endpoint = own.endpoint
              /\ c.upstream[i].params["q"] = own.q
        /\ \A i \in 1..(n - 1) : RetryableFailure(c.history[i])
        /\ c.pc = "idle" => (c.upstream = <<>> /\ n = 0)
        /\ c.pc = "request" =>
              (Len(c.upstream) = n + 1 /\ c.attempt = n /\ c.sleeps = n)
        /\ c.pc = "sleep" =>
              /\ n \in {1, 2}
              /\ RetryableFailure(c.history[n])
              /\ Len(c.upstream) = n /\ c.attempt = n - 1 /\ c.sleeps = n
        /\ c.pc = "returned" =>
              /\ c.history[n].kind = "ok"
              /\ Len(c.upstream) = n /\ c.sleeps = n - 1
              /\ c.result.query.q = own.q
        /\ (c.pc = "raised" /\ n > 0) =>
              /\ Len(c.upstream) = n /\ c.sleeps = n - 1
              /\ c.result = <<>>
              /\ c.history[n].kind = "status" =>
                    /\ c.error.kind = "upstream"
                    /\ c.error.status = c.history[n].status
                    /\ RetryableFailure(c.history[n]) => n = 3
              /\ c.history[n].kind = "net" => (c.error.kind = "network" /\ n = 3)
        /\ c.pc = "cancelled" =>
              /\ c.result = <<>>
              /\ c.error.type = "CancelledError"
              /\ Len(c.upstream) - n \in {0, 1}
              /\ \A i \in 1..n : RetryableFailure(c.history[i])

\* C19: under every interleaving of two concurrent calls with different
\* queries, each call follows its own course (attempts, delay, outcome
\* from its own answers alone), and a step of one call, its failure,
\* exhaustion or cancellation included, leaves the other call's
\* attempts, requests, delay and result as they were.
C19_CallsIndependent ==
    /\ [](OwnCourse(Call1) /\ OwnCourse(Call2))
    /\ [][/\ callvars' # callvars => peer' = peer
          /\ peer' # peer => callvars' = callvars]_vars

C19_Witness ==
    /\ pc = "raised"
    /\ Len(history) = 3
    /\ error.kind = "network"
    /\ peer.pc = "returned"
    /\ Len(peer.history) = 2
    /\ peer.sleeps = 1
    /\ peer.result.query.q = <<"b">>
    /\ args.q = <<"a">>

\* q is raw without its leading and trailing spaces, tabs and newlines
IsTrimOf(q, raw) ==
    /\ q # <<>> => (q[1] \notin {" ", "\t", "\n"} /\ q[Len(q)] \notin {" ", "\t", "\n"})
    /\ \E a \in 0..Len(raw) :
          /\ a + Len(q) <= Len(raw)
          /\ \A i \in 1..Len(q) : raw[a + i] = q[i]
          /\ \A i \in 1..Len(raw) :
                (i <= a \/ i > a + Len(q)) => raw[i] \in {" ", "\t", "\n"}

\* C21: the q sent on every attempt, the q echoed and the input of the
\* trace hash are the query without its surrounding whitespace, so the
\* hash depends on the trimmed query only; a query that is empty after
\* trimming is sent like any other.
C21_QueryTrimmed ==
    /\ \A i \in 1..Len(upstream) : IsTrimOf(upstream[i].params["q"], args.q)
    /\ pc = "returned" =>
          /\ result.query.q = upstream[1].params["q"]
          /\ result.trace.q_hash = _hash_q(upstream[1].params["q"])
    /\ (pc # "idle" /\ args.safe = None) =>
          (upstream # <<>> /\ (pc = "raised" => error.kind # "input"))

C21_Witness ==
    /\ pc = "returned"
    /\ args.q = <<" ", "a", " ", "b", "\n">>
    /\ upstream[1].params["q"] = <<"a", " ", "b">>
    /\ result.query.q = <<"a", " ", "b">>
    /\ result.trace.q_hash = _hash_q(<<"a", " ", "b">>)

\* the position of the k-th comma of s
CommaAt(s, k) ==
    CHOOSE i \in 1..Len(s) :
        s[i] = "," /\ Cardinality({j \in 1..(i - 1) : s[j] = ","}) = k - 1

\* the k-th of the parts of s between its commas
Part(s, k) ==
    LET commas == Cardinality({i \in 1..Len(s) : s[i] = ","})
        from == IF k = 1 THEN 1 ELSE CommaAt(s, k - 1) + 1
        to == IF k = commas + 1 THEN Len(s) ELSE CommaAt(s, k) - 1
    IN  SubSeq(s, from, to)

Blank(s) == \A i \in 1..Len(s) : s[i] \in {" ", "\t", "\n"}

\* origins lists, in order, the trimmed non-blank comma-separated parts of s
ListsPartsOf(origins, s) ==
    LET n == Cardinality({i \in 1..Len(s) : s[i] = ","}) + 1
        kept == {k \in 1..n : ~Blank(Part(s, k))}
    IN  /\ Len(origins) = Cardinality(kept)
        /\ \A k \in kept :
              IsTrimOf(origins[Cardinality({j \in kept : j <= k})], Part(s, k))

\* C22: the app of either network transport allows every origin when
\* CORS_ORIGINS is unset or is "*" after trimming; otherwise it allows
\* exactly the trimmed, non-empty comma-separated entries, in order, and
\* has no CORS middleware when there is none.
C22_CorsOrigins ==
    launcher \in {"sse", "streamable"} =>
        LET env == app.env.CORS_ORIGINS
            cors == app.app.cors
        IN  IF env = <<>> \/ IsTrimOf(<<"*">>, env[1])
            THEN Len(cors) = 1 /\ cors[1].allow_origins = <<<<"*">>>>
            ELSE \/ cors = <<>> /\ ListsPartsOf(<<>>, env[1])
                 \/ /\ Len(cors) = 1
                    /\ cors[1].allow_origins # <<>>
                    /\ ListsPartsOf(cors[1].allow_origins, env[1])

C22_Witness ==
    /\ launcher = "streamable"
    /\ app.env.CORS_ORIGINS =
          <<<<"https://a.example", ",", " ", "https://b.example", ",">>>>
    /\ app.app.cors[1].allow_origins = <<<<"https://a.example">>, <<"https://b.example">>>>

\* C23: with no allowlist _normalize gives one result per upstream item,
\* in order; title, url and snippet are the item's title, link and
\* snippet, None for a field the item lacks; None and the empty list give
\* the empty list.
C23_NoAllowlistKeepsAll ==
    (pc = "normalized" /\ ALLOW_DOMAINS = {}) =>
        LET res == result.results
            its == UpstreamItems
            Field(it, k) == IF k \in DOMAIN it THEN <<it[k]>> ELSE <<>>
        IN  /\ Len(res) = Len(its)
            /\ \A i \in 1..Len(its) :
                  /\ res[i].title = Field(its[i], "title")
                  /\ res[i].url = Field(its[i], "link")
                  /\ res[i].snippet = Field(its[i], "snippet")
                  /\ its[i] = <<>> =>
                        (res[i].title = <<>> /\ res[i].url = <<>> /\ res[i].snippet = <<>>)
            /\ (data = <<>> \/ its = <<>>) => res = <<>>

C23_Witness ==
    /\ pc = "normalized"
    /\ ALLOW_DOMAINS = {}
    /\ data = [items |-> <<ItemE, <<>>, ItemA>>]
    /\ Len(result.results) = 3
    /\ result.results[1].title = <<"E">>
    /\ result.results[1].url = <<>>
    /\ result.results[2].snippet = <<>>
    /\ result.results[3].url = <<ItemA.link>>

\* C24: a successful response with no items and no next-page entry
\* (no queries, or queries without nextPage) gives a result with an empty
\* results list and nextPage None; a response with
\* queries.nextPage[0].startIndex gives nextPage equal to that value.
C24_EmptyResultsAndNextPage ==
    pc = "returned" =>
        LET hasNext == /\ "queries" \in DOMAIN data
                       /\ "nextPage" \in DOMAIN data["queries"]
        IN  /\ ("items" \notin DOMAIN data /\ ~hasNext) =>
                  (result.results = <<>> /\ result.nextPage = <<>>)
            /\ ~hasNext => result.nextPage = <<>>
            /\ hasNext =>
                  result.nextPage = <<data["queries"]["nextPage"][1]["startIndex"]>>

C24_Witness ==
    /\ pc = "returned"
    /\ "items" \notin DOMAIN data
    /\ "queries" \in DOMAIN data
    /\ "nextPage" \notin DOMAIN data["queries"]
    /\ result.results = <<>>
    /\ result.nextPage = <<>>

\* the registration request carries "Authorization: Bearer tok" (scheme
\* in any case); of several Authorization headers the last one counts
CarriesBearer(event, tok) ==
    /\ event.headers # <<>>
    /\ LET value == event.headers[Len(event.headers)][2]
           words == SelectSeq(value, LAMBDA t : t # " ")
       IN  /\ Len(words) = 2
           /\ words[1] \in {"Bearer", "bearer", "BEARER"}
           /\ words[2] = tok

\* REQUIRE_INITIAL_ACCESS_TOKEN reads as true: unset, or a spelling of true
RequireIat == dcr.env.REQUIRE_INITIAL_ACCESS_TOKEN \in {<<>>, <<"TRUE">>, <<"true">>}

\* C25 as stated: with REQUIRE_INITIAL_ACCESS_TOKEN true, Cognito is
\* called only for a request whose bearer token equals
\* INITIAL_ACCESS_TOKEN; every request with another, a malformed or no
\* token is answered 401 invalid_token, every request is answered 500 when
\* INITIAL_ACCESS_TOKEN is unset, and Cognito is called in neither case.
C25_TokenGate ==
    (dcr.phase = "done" /\ RequireIat) =>
        LET expected == dcr.env.INITIAL_ACCESS_TOKEN
        IN  /\ dcr.cognito # <<>> =>
                  (expected # <<>> /\ CarriesBearer(dcr.event, expected[1]))
            /\ (expected # <<>> /\ expected # <<"">> /\ ~CarriesBearer(dcr.event, expected[1])) =>
                  /\ dcr.response.statusCode = 401
                  /\ dcr.response.body.error = "invalid_token"
                  /\ dcr.cognito = <<>>
            /\ expected = <<>> =>
                  (dcr.response.statusCode = 500 /\ dcr.cognito = <<>>)

\* the event is a registration request that reaches the token check: no
\* CORS preflight, no health ping, and USER_POOL_ID is set
ReachesTokenCheck ==
    /\ dcr.event.httpMethod # "OPTIONS"
    /\ ~dcr.event.ping
    /\ dcr.env.USER_POOL_ID \notin {<<>>, <<"">>}

\* C25 as amended: with REQUIRE_INITIAL_ACCESS_TOKEN true, Cognito is
\* called only for a request whose bearer token equals
\* INITIAL_ACCESS_TOKEN; a registration request that reaches the token
\* check (no preflight, no health ping, USER_POOL_ID set) is answered 500
\* when INITIAL_ACCESS_TOKEN is unset or empty and otherwise 401
\* invalid_token when it carries another, a malformed or no token; Cognito
\* is called in neither case.
C25_TokenGateAfterShortcuts ==
    (dcr.phase = "done" /\ RequireIat) =>
        LET expected == dcr.env.INITIAL_ACCESS_TOKEN
            unset == expected \in {<<>>, <<"">>}
        IN  /\ dcr.cognito # <<>> =>
                  (~unset /\ CarriesBearer(dcr.event, expected[1]))
            /\ (ReachesTokenCheck /\ ~unset /\ ~CarriesBearer(dcr.event, expected[1])) =>
                  /\ dcr.response.statusCode = 401
                  /\ dcr.response.body.error = "invalid_token"
                  /\ dcr.cognito = <<>>
            /\ (ReachesTokenCheck /\ unset) =>
                  /\ dcr.response.statusCode = 500
                  /\ dcr.response.body.error = "server_error"
                  /\ dcr.cognito = <<>>
            /\ ~ReachesTokenCheck => dcr.cognito = <<>>

C25_Witness ==
    /\ dcr.phase = "done"
    /\ dcr.env.REQUIRE_INITIAL_ACCESS_TOKEN = <<>>
    /\ dcr.env.INITIAL_ACCESS_TOKEN = <<"secret">>
    /\ dcr.event.headers = <<<<"Authorization", <<"Basic", " ", "secret">>>>>>
    /\ dcr.response.statusCode = 401
    /\ dcr.cognito = <<>>

\* C26: whenever the handler answers 201, the flows given to the new
\* Cognito client are those of the grant types the answer reports
\* (authorization_code as code, client_credentials, implicit).
C26_FlowsMatchGrantTypes ==
    (dcr.phase = "done" /\ dcr.response.statusCode = 201) =>
        LET FlowOf(g) == IF g \in {"authorization_code", "authorization-code"}
                         THEN "code" ELSE g
            reported == dcr.response.body.grant_types
            flows == dcr.cognito[1].AllowedOAuthFlows
        IN  {FlowOf(reported[i]) : i \in 1..Len(reported)}
                = {flows[i] : i \in 1..Len(flows)}

\* C27: while a call waits before a retry, the delay is the Retry-After
\* value floored at 0 when a retryable status came with a header that
\* parses as seconds, and otherwise (no header, an empty or unparseable
\* one, or a transport failure) (0.2 + r) * 2^attempt seconds with r in
\* [0, 0.4): within [0.2, 0.6) before the second attempt and [0.4, 1.2)
\* before the third.  Delays are in milliseconds.
C27_RetryDelay ==
    pc = "sleep" =>
        LET seconds == [h \in {"0", "2", "-1"} |->
                          CASE h = "0" -> 0 [] h = "2" -> 2 [] h = "-1" -> -1]
            parseable == resp.kind = "status" /\ resp.retryAfter \in DOMAIN seconds
            floored == IF seconds[resp.retryAfter] < 0 THEN 0
                       ELSE 1000 * seconds[resp.retryAfter]
        IN  /\ delay # <<>>
            /\ attempt \in {0, 1}
            /\ parseable => delay[1] = floored
            /\ ~parseable =>
                  /\ resp.jitter \in 0..399
                  /\ attempt = 0 => delay[1] = 200 + resp.jitter
                  /\ attempt = 1 => delay[1] = 2 * (200 + resp.jitter)
                  /\ attempt = 0 => (200 <= delay[1] /\ delay[1] < 600)
                  /\ attempt = 1 => (400 <= delay[1] /\ delay[1] < 1200)

C27_Witness ==
    /\ pc = "sleep"
    /\ attempt = 1
    /\ history[1].kind = "net"
    /\ resp.kind = "status"
    /\ resp.retryAfter = "abc"
    /\ delay = <<1198>>

C30_EveryCallCompletes ==
    /\ [](pc # "exhausted")
    /\ (pc \in {"request", "sleep"}) ~> (pc \in {"returned", "raised"})

C30_Witness ==
    /\ pc = "raised"
    /\ Len(upstream) = 3
    /\ history = <<[kind |-> "net", status |-> 0],
                   [kind |-> "net", status |-> 0],
                   [kind |-> "status", status |-> 429]>>
    /\ error.kind = "upstream"

====
